---- MODULE Spec2Model ----
(***************************************************************************)
(* GameplayGrab (gg.py): synchronized screen/input capture.                *)
(*                                                                         *)
(* Threads of the program, each a part of this state machine:              *)
(*   - the command thread (the main loop with start_trial, stop_trial and  *)
(*     reset_program), statement by statement where another thread can     *)
(*     observe the difference;                                             *)
(*   - the pynput keyboard and mouse listener threads (one callback at a   *)
(*     time each): the unlocked `recording` test, then the locked body;    *)
(*   - the Quartz raw tap and its poll thread (macOS raw mode);            *)
(*   - the capture_screen threads, one started by every start_trial and    *)
(*     never joined.                                                       *)
(* state_lock is held by a capture thread from its partition until its     *)
(* counter increment; every other locked body is one atomic step taken     *)
(* when the lock is free.  time.time() is a read of the wall clock: every  *)
(* read returns the last value read (now) or a later one, up to horizon;   *)
(* the sleep of stop_trial moves the clock past the horizon.               *)
(***************************************************************************)
EXTENDS Integers, Sequences, FiniteSets, TLC

\* ------------------------------------------------------------------ bounds
MaxElapsed == 1       \* clock units that pass between two sleeps of stop_trial
MaxInputs == 2        \* physical input occurrences per run
MaxFrames == 2        \* frames captured per run
MaxTrials == 2        \* trials started per run
MaxSched == 2         \* capture threads alive at once
RawTrials == 1        \* trials started per run in raw pointer mode
MaxPos == 1           \* pointer positions 1..MaxPos on the x axis
MaxFailures == 1      \* image writes that fail per run
MaxPlayback == 32     \* FrameRecords of the trial log that playback loads

\* ------------------------------------------------------- program constants
MOUSE_MOVE_TIMEOUT == 2      \* gg.py:98, 0.2 s in clock units of 100 ms
STOP_SLEEP == 5              \* gg.py:598, time.sleep(0.5) in stop_trial
SAVE_FORMAT == ".webp"
JUMP == 30                   \* gg.py:423 and 425, the jump of the up and down keys
\* gg.py:105-108, the key codes of the arrow keys in the OpenCV window
LEFT_KEYS == {2424832, 65361, 63234}
RIGHT_KEYS == {2555904, 65363, 63235}
UP_KEYS == {2490368, 65362, 63232}
DOWN_KEYS == {2621440, 65364, 63233}
\* key = cv2.waitKeyEx(50) without a key press, and a key that is no arrow
NoKey == -1
OtherKey == 32
WaitKeys == LEFT_KEYS \cup RIGHT_KEYS \cup UP_KEYS \cup DOWN_KEYS \cup {NoKey, OtherKey}
\* last_rendered_idx = None
NotRendered == -1

Keys == {"a"}
Buttons == {"Button.left"}
Positions == {<<p, 0>> : p \in 1..MaxPos}
\* the dataset folders on disk before the run, each with its Trial_<n>
OneDataset == [dsB |-> {0, 2}]
TwoDatasets == [dsA |-> {}, dsB |-> {0, 2}]
Commands == {"s", "q", "n"}
Scheds == 1..MaxSched
None == "None"

VARIABLES
    \* module globals of gg.py
    recording, dataset_name, next_trial_number, trial_data_log,
    trial_frame_counter, trial_folder_path, pressed_keys,
    pressed_mouse_buttons, last_mouse_move_time, last_mouse_xy,
    last_os_mouse_xy, stop_capture_event, pending_events,
    global_event_count, raw_mouse_deltas, enable_mac_raw_data,
    \* the command thread, and the locals of its visualize_dataset
    main_pc, cmd, idx, total_frames, wait_key, last_rendered_idx,
    \* the listener threads: the callback in progress, past its recording test
    kb_call, ms_call,
    \* raw mode: registered Quartz taps, position of the poll thread
    taps, poller,
    \* capture_screen threads and their locals
    sched_pc, last_frame_time, frame_start, mouse_is_moving, frame_time,
    counter_read,
    \* the environment: wall clock, keys and buttons physically down, files
    now, phys_keys, phys_buttons, folders, saved,
    \* what is left of the run: physical inputs, trial starts, captures, and
    \* the last value the clock takes before the next sleep of stop_trial;
    \* image writes that fail
    inputs, trials, captures, horizon, failures,
    \* history: no physical input since the current trial was started
    quiet

globalVars == <<recording, dataset_name, next_trial_number,
                trial_data_log, trial_frame_counter, trial_folder_path,
                stop_capture_event>>
inputVars == <<pressed_keys, pressed_mouse_buttons, last_mouse_move_time,
               last_mouse_xy, last_os_mouse_xy>>
queueVars == <<pending_events, global_event_count>>
rawVars == <<raw_mouse_deltas, enable_mac_raw_data, taps, poller>>
mainVars == <<main_pc, cmd>>
playVars == <<idx, total_frames, wait_key, last_rendered_idx>>
callVars == <<kb_call, ms_call>>
schedVars == <<sched_pc, last_frame_time, frame_start, mouse_is_moving,
               frame_time, counter_read>>
physVars == <<phys_keys, phys_buttons>>
budgetVars == <<inputs, trials, captures, horizon, failures>>
diskVars == <<folders, saved>>
vars == <<globalVars, inputVars, queueVars, rawVars, mainVars, playVars, callVars,
          schedVars, physVars, diskVars, budgetVars, now, quiet>>

\* ----------------------------------------------------------------- helpers
Range(s) == {s[i] : i \in 1..Len(s)}

IsFrame(e) == "filename" \in DOMAIN e

IsMarker(e, ty) == "type" \in DOMAIN e /\ e.type = ty

Frames(log) == SelectSeq(log, IsFrame)

\* a scan that counts the Trial_<n> entries instead of taking the highest
scan_existing_trials_count(entries) == Cardinality(entries) - 1

\* scan_existing_trials: the highest n among the Trial_<n> entries, else -1
scan_existing_trials(entries) ==
    LET RECURSIVE Scan(_, _)
        Scan(rest, max_trial) ==
            IF rest = {} THEN max_trial
            ELSE LET trial_num == CHOOSE n \in rest : TRUE
                 IN Scan(rest \ {trial_num},
                         IF trial_num > max_trial THEN trial_num ELSE max_trial)
    IN Scan(entries, -1)

\* f"frame_{trial_frame_counter}{SAVE_FORMAT}"
FrameFileName(counter) == <<"frame_", counter, SAVE_FORMAT>>

\* add_event: the event built from the arguments, numbered and stamped
NewEvent(count, ts, keyboard_keys, mouse_buttons, mouse_move, xy, dxy, raw_input) ==
    [global_number |-> count,
     timestamp |-> ts,
     keyboard_keys |-> keyboard_keys,
     mouse_buttons |-> mouse_buttons,
     mouse_is_moving |-> mouse_move,
     raw_input |-> raw_input,
     mouse_xy |-> IF mouse_move THEN xy ELSE <<>>,
     mouse_delta |-> IF mouse_move THEN dxy ELSE <<>>]

\* a counter that is not incremented
NextEventCount_stuck(count) == count

\* global_event_count += 1
NextEventCount(count) == count + 1

\* last_frame_time < evt["timestamp"] <= frame_time
InWindow(last, ts, ft) == last < ts /\ ts <= ft

\* a copy that is numbered without local_idx
new_evt_same(evt, local_idx) == evt @@ ("number" :> 0)

\* new_evt = dict(evt); new_evt["number"] = local_idx
new_evt(evt, local_idx) == evt @@ ("number" :> local_idx)

\* the partition loop of capture_screen: walks pending_events from index i,
\* moves the events of the window to frame_events with their local number
RECURSIVE PartitionLoop(_, _, _, _, _, _)
PartitionLoop(pending, i, local_idx, frame_events, last, ft) ==
    IF i > Len(pending) THEN [events |-> frame_events, pending |-> pending]
    ELSE LET evt == pending[i]
         IN IF InWindow(last, evt.timestamp, ft)
            THEN PartitionLoop(
                     SubSeq(pending, 1, i - 1) \o SubSeq(pending, i + 1, Len(pending)),
                     i, local_idx + 1,
                     Append(frame_events, new_evt(evt, local_idx)),
                     last, ft)
            ELSE PartitionLoop(pending, i + 1, local_idx, frame_events, last, ft)

Partition(pending, last, ft) == PartitionLoop(pending, 1, 0, <<>>, last, ft)

\* a timeout test that includes the boundary
MouseIsMoving_inclusive(start, last_move) == (start - last_move) <= MOUSE_MOVE_TIMEOUT

\* (frame_start - last_mouse_move_time) < MOUSE_MOVE_TIMEOUT
MouseIsMoving(start, last_move) == (start - last_move) < MOUSE_MOVE_TIMEOUT

\* bool(pressed_keys or pressed_mouse_buttons or mouse_is_moving)
ShouldCapture(keys, buttons, moving) == keys # {} \/ buttons # {} \/ moving

\* state_lock is held by a capture thread from its partition to its increment
LockedPcs == {"inc"}
LockFree == \A t \in Scheds : sched_pc[t] \notin LockedPcs

NoCall == [op |-> "none", id |-> "", pressed |-> FALSE, xy |-> <<>>,
           now |-> 0, dxy |-> <<>>]
\* ------------------------------------------------------------------- Init
\* The module globals as gg.py sets them, main() past its raw-mode question
\* and listener start, before initialize_dataset.
Globals ==
    /\ recording = FALSE
    /\ dataset_name = None
    /\ next_trial_number = 0
    /\ trial_data_log = <<>>
    /\ trial_frame_counter = 0
    /\ trial_folder_path = <<>>
    /\ pressed_keys = {}
    /\ pressed_mouse_buttons = {}
    /\ last_mouse_move_time = 0
    /\ last_mouse_xy = <<0, 0>>
    /\ last_os_mouse_xy = <<0, 0>>
    /\ stop_capture_event = FALSE
    /\ pending_events = <<>>
    /\ global_event_count = 0
    /\ raw_mouse_deltas = <<>>
    /\ main_pc = "init"
    /\ cmd = ""
    /\ idx = 0
    /\ total_frames = 0
    /\ wait_key = NoKey
    /\ last_rendered_idx = NotRendered
    /\ kb_call = NoCall
    /\ ms_call = NoCall
    /\ taps = 0
    /\ poller = "none"
    /\ sched_pc = [t \in Scheds |-> "none"]
    /\ last_frame_time = [t \in Scheds |-> 0]
    /\ frame_start = [t \in Scheds |-> 0]
    /\ mouse_is_moving = [t \in Scheds |-> FALSE]
    /\ frame_time = [t \in Scheds |-> 0]
    /\ counter_read = [t \in Scheds |-> 0]
    /\ now = MOUSE_MOVE_TIMEOUT
    /\ phys_keys = {}
    /\ phys_buttons = {}
    /\ saved = {}
    /\ quiet = FALSE

\* absolute pointer mode, one dataset on disk
Init ==
    /\ Globals
    /\ enable_mac_raw_data = FALSE
    /\ folders = OneDataset
    /\ inputs = MaxInputs
    /\ trials = MaxTrials
    /\ captures = MaxFrames - 1
    /\ horizon = now + MaxElapsed
    /\ failures = 0

\* the same with fewer inputs and more frames
InitFrames ==
    /\ Globals
    /\ enable_mac_raw_data = FALSE
    /\ folders = OneDataset
    /\ inputs = MaxInputs - 1
    /\ trials = MaxTrials
    /\ captures = MaxFrames
    /\ horizon = now + MaxElapsed
    /\ failures = 0

\* raw pointer mode (macOS, the question answered y), one dataset on disk
InitRaw ==
    /\ Globals
    /\ enable_mac_raw_data = TRUE
    /\ folders = OneDataset
    /\ inputs = MaxInputs
    /\ trials = RawTrials
    /\ captures = MaxFrames
    /\ horizon = now + MaxElapsed
    /\ failures = 0

\* raw pointer mode over several trials, with fewer inputs and frames
InitRawTrials ==
    /\ Globals
    /\ enable_mac_raw_data = TRUE
    /\ folders = OneDataset
    /\ inputs = MaxInputs - 1
    /\ trials = MaxTrials
    /\ captures = MaxFrames - 1
    /\ horizon = now + MaxElapsed
    /\ failures = 0

\* absolute pointer mode, image writes can fail
InitWriteFail ==
    /\ Globals
    /\ enable_mac_raw_data = FALSE
    /\ folders = OneDataset
    /\ inputs = MaxInputs - 1
    /\ trials = MaxTrials
    /\ captures = MaxFrames
    /\ horizon = now + MaxElapsed
    /\ failures = MaxFailures

\* no recording: the command thread binds a dataset and visualizes trials
InitPlayback ==
    /\ Globals
    /\ enable_mac_raw_data = FALSE
    /\ folders = OneDataset
    /\ inputs = 0
    /\ trials = 0
    /\ captures = 0
    /\ horizon = now + MaxElapsed
    /\ failures = 0

\* absolute pointer mode, one input and one frame
InitCancel ==
    /\ Globals
    /\ enable_mac_raw_data = FALSE
    /\ folders = OneDataset
    /\ inputs = MaxInputs - 1
    /\ trials = MaxTrials
    /\ captures = MaxFrames - 1
    /\ horizon = now + MaxElapsed
    /\ failures = 0

\* absolute pointer mode, an empty and a used dataset on disk
InitNumbering ==
    /\ Globals
    /\ enable_mac_raw_data = FALSE
    /\ folders = TwoDatasets
    /\ inputs = MaxInputs - 1
    /\ trials = MaxTrials
    /\ captures = MaxFrames - 1
    /\ horizon = now + MaxElapsed
    /\ failures = 0

\* ------------------------------------------------------------ environment
\* the values a read of time.time() can return
Clock == now..horizon

\* the run ends when its last trial is saved: no input and no command after
RunOver == trials = 0 /\ ~recording /\ main_pc = "prompt"

\* --------------------------------------------------------- command thread
\* initialize_dataset: bind the dataset, next trial = highest Trial_<n> + 1
BindDataset(name) ==
    LET last_trial == scan_existing_trials(folders[name])
    IN /\ next_trial_number' = IF last_trial >= 0 THEN last_trial + 1 ELSE 0
       /\ dataset_name' = name

InitializeDataset ==
    /\ main_pc = "init"
    /\ \E name \in DOMAIN folders : BindDataset(name)
    /\ main_pc' = "prompt"
    /\ UNCHANGED <<recording, trial_data_log, trial_frame_counter,
                   trial_folder_path, stop_capture_event, cmd>>
    /\ UNCHANGED <<inputVars, queueVars, rawVars, callVars, schedVars,
                   physVars, diskVars, budgetVars, now, quiet, playVars>>

\* a start_trial that returns early only when no dataset is bound
StartRejected_unbound == dataset_name = None

\* the early returns of start_trial
StartRejected == dataset_name = None \/ recording

\* the early return of stop_trial
StopRejected == ~recording

\* the early return of reset_program and of exit_program
ResetRejected == recording

\* the guard on which the handler of command c returns with a warning
Rejected(c) ==
    \/ c = "s" /\ StartRejected
    \/ c = "q" /\ StopRejected
    \/ c = "n" /\ ResetRejected

\* main(): a command is read and its handler returns on its guard
CommandRejected ==
    /\ main_pc = "prompt"
    /\ ~RunOver
    /\ \E c \in Commands : Rejected(c) /\ cmd' = c
    /\ main_pc' = "warn"
    /\ UNCHANGED <<globalVars, inputVars, queueVars, rawVars, callVars,
                   schedVars, physVars, diskVars, budgetVars, now, quiet,
                   playVars>>

\* the warning is printed and the main loop prompts again
CommandWarned ==
    /\ main_pc = "warn"
    /\ main_pc' = "prompt"
    /\ cmd' = ""
    /\ UNCHANGED <<globalVars, inputVars, queueVars, rawVars, callVars,
                   schedVars, physVars, diskVars, budgetVars, now, quiet,
                   playVars>>

\* start_trial, lines 552-555: the trial folder, trial_data_log.clear()
StartTrialFolder ==
    /\ main_pc = "prompt"
    /\ ~StartRejected
    /\ cmd' = "s"
    /\ trials > 0
    /\ trials' = trials - 1
    /\ \E t \in Scheds : sched_pc[t] = "none"
    /\ trial_folder_path' = <<dataset_name, next_trial_number>>
    /\ folders' = [folders EXCEPT ![dataset_name] = @ \cup {next_trial_number}]
    /\ trial_data_log' = <<>>
    /\ main_pc' = "start1"
    /\ UNCHANGED <<recording, dataset_name, next_trial_number,
                   trial_frame_counter, stop_capture_event, saved>>
    /\ UNCHANGED <<inputVars, queueVars, rawVars, callVars, schedVars,
                   physVars, inputs, captures, horizon, now, quiet,
                   playVars, failures>>

\* start_trial, line 556: trial_frame_counter = 0
StartTrialCounter ==
    /\ main_pc = "start1"
    /\ trial_frame_counter' = 0
    /\ main_pc' = "start2"
    /\ UNCHANGED <<recording, dataset_name, next_trial_number,
                   trial_data_log, trial_folder_path, stop_capture_event, cmd>>
    /\ UNCHANGED <<inputVars, queueVars, rawVars, callVars, schedVars,
                   physVars, diskVars, budgetVars, now, quiet, playVars>>

\* start_trial, lines 557-559, under state_lock
StartTrialQueue ==
    /\ main_pc = "start2"
    /\ LockFree
    /\ pending_events' = <<>>
    /\ global_event_count' = 0
    /\ main_pc' = "start3"
    /\ UNCHANGED <<globalVars, inputVars, rawVars, cmd, callVars, schedVars,
                   physVars, diskVars, budgetVars, now, quiet, playVars>>

\* start_trial, lines 561-565: the trial_start marker
StartTrialMarker ==
    /\ main_pc = "start3"
    /\ \E ts \in Clock :
           /\ now' = ts
           /\ trial_data_log' = Append(trial_data_log,
                  [type |-> "trial_start", timestamp |-> ts,
                   trial_number |-> next_trial_number])
    /\ main_pc' = "start4"
    /\ UNCHANGED <<recording, dataset_name, next_trial_number,
                   trial_frame_counter, trial_folder_path, stop_capture_event,
                   cmd>>
    /\ UNCHANGED <<inputVars, queueVars, rawVars, callVars, schedVars,
                   physVars, diskVars, budgetVars, quiet, playVars>>

\* start_trial, lines 567-578: the stop signal cleared, recording on, a new
\* capture thread; in raw mode one more Quartz tap and a poll thread
StartTrialThreads ==
    /\ main_pc = "start4"
    /\ stop_capture_event' = FALSE
    /\ recording' = TRUE
    /\ LET t == CHOOSE s \in Scheds :
                    sched_pc[s] = "none" /\ \A u \in Scheds : sched_pc[u] = "none" => s <= u
       IN sched_pc' = [sched_pc EXCEPT ![t] = "start"]
    /\ IF enable_mac_raw_data
       THEN /\ taps' = taps + 1
            /\ poller' = IF poller = "drain" THEN "drain" ELSE "check"
       ELSE UNCHANGED <<taps, poller>>
    /\ quiet' = (phys_keys = {} /\ phys_buttons = {})
    /\ main_pc' = "prompt"
    /\ cmd' = ""
    /\ UNCHANGED <<dataset_name, next_trial_number, trial_data_log,
                   trial_frame_counter, trial_folder_path>>
    /\ UNCHANGED <<inputVars, queueVars, raw_mouse_deltas, enable_mac_raw_data,
                   callVars, last_frame_time, frame_start, mouse_is_moving,
                   frame_time, counter_read, physVars, diskVars, budgetVars, now,
                   playVars>>

\* stop_trial, lines 589-596: the stop signal, recording off, the trial_end
\* marker
StopTrialSignal ==
    /\ main_pc = "prompt"
    /\ ~StopRejected
    /\ cmd' = "q"
    /\ stop_capture_event' = TRUE
    /\ recording' = FALSE
    /\ \E ts \in Clock :
           /\ now' = ts
           /\ trial_data_log' = Append(trial_data_log,
                  [type |-> "trial_end", timestamp |-> ts,
                   trial_number |-> next_trial_number])
    /\ main_pc' = "stop1"
    /\ UNCHANGED <<dataset_name, next_trial_number,
                   trial_frame_counter, trial_folder_path>>
    /\ UNCHANGED <<inputVars, queueVars, rawVars, callVars, schedVars,
                   physVars, diskVars, budgetVars, quiet, playVars>>

\* save_trial_data_log: TrialData_<n>.json is written (or overwritten)
SavedLog(files, name, trial_number) ==
    files \cup {[dataset |-> name, trial_number |-> trial_number]}

\* stop_trial, lines 598-601: the sleep, the log saved, the counter
StopTrialSave ==
    /\ main_pc = "stop1"
    /\ saved' = SavedLog(saved, dataset_name, next_trial_number)
    /\ next_trial_number' = next_trial_number + 1
    /\ now' = horizon + STOP_SLEEP
    /\ horizon' = now' + MaxElapsed
    /\ quiet' = FALSE
    /\ main_pc' = "prompt"
    /\ cmd' = ""
    /\ UNCHANGED <<recording, dataset_name, trial_data_log,
                   trial_frame_counter, trial_folder_path, stop_capture_event>>
    /\ UNCHANGED <<inputVars, queueVars, rawVars, callVars, schedVars,
                   physVars, folders, inputs, trials, captures,
                   playVars, failures>>

\* reset_program: the binding dropped, then initialize_dataset
ResetProgram ==
    /\ main_pc = "prompt"
    /\ ~ResetRejected
    /\ ~RunOver
    /\ \E name \in DOMAIN folders : BindDataset(name)
    /\ UNCHANGED mainVars
    /\ UNCHANGED <<recording, trial_data_log, trial_frame_counter,
                   trial_folder_path, stop_capture_event>>
    /\ UNCHANGED <<inputVars, queueVars, rawVars, callVars, schedVars,
                   physVars, diskVars, budgetVars, now, quiet, playVars>>

\* ------------------------------------------------------ visualize_dataset
\* lines 369-411: the log of the chosen trial is loaded; without a frame
\* entry the function returns, else idx = 0 and total_frames = len(frames)
VisualizeOpen ==
    /\ main_pc = "prompt"
    /\ dataset_name # None
    /\ \E frame_count \in 0..MaxPlayback :
           IF frame_count = 0
           THEN UNCHANGED <<main_pc, playVars>>
           ELSE /\ main_pc' = "vis"
                /\ idx' = 0
                /\ total_frames' = frame_count
                /\ last_rendered_idx' = NotRendered
                /\ UNCHANGED wait_key
    /\ cmd' = "v"
    /\ UNCHANGED <<globalVars, inputVars, queueVars, rawVars, callVars,
                   schedVars, physVars, diskVars, budgetVars, now, quiet>>

\* lines 418-425: the index after the key
Navigate(i, k) ==
    IF k \in LEFT_KEYS THEN i - 1
    ELSE IF k \in RIGHT_KEYS THEN i + 1
    ELSE IF k \in UP_KEYS THEN i + JUMP
    ELSE IF k \in DOWN_KEYS THEN i - JUMP
    ELSE i

\* a clamp at the lower end only
Clamp_low(i, total) == IF i < 0 THEN 0 ELSE i

\* lines 427-430: if idx < 0: idx = 0; if idx >= total_frames: idx = total_frames - 1
Clamp(i, total) ==
    LET low == IF i < 0 THEN 0 ELSE i
    IN IF low >= total THEN total - 1 ELSE low

\* the locals of visualize_dataset are gone when it returns
VisualizeReturn ==
    /\ main_pc' = "prompt"
    /\ cmd' = ""
    /\ idx' = 0
    /\ total_frames' = 0
    /\ wait_key' = NoKey
    /\ last_rendered_idx' = NotRendered

\* lines 416-443: one turn of the loop: the key, the index moved and clamped,
\* and the frame rendered when the index changed; a frame file that is
\* missing or unreadable ends the loop
VisualizeKey(k) ==
    /\ main_pc = "vis"
    /\ LET moved == Clamp(Navigate(idx, k), total_frames)
       IN IF moved # last_rendered_idx
          THEN \E readable \in BOOLEAN :
                   IF readable
                   THEN /\ wait_key' = k
                        /\ idx' = moved
                        /\ last_rendered_idx' = moved
                        /\ UNCHANGED <<mainVars, total_frames>>
                   ELSE VisualizeReturn
          ELSE /\ wait_key' = k
               /\ idx' = moved
               /\ UNCHANGED <<mainVars, total_frames, last_rendered_idx>>
    /\ UNCHANGED <<globalVars, inputVars, queueVars, rawVars, callVars,
                   schedVars, physVars, diskVars, budgetVars, now, quiet>>

\* visualization_console_listener read q: the loop test fails, lines 509-511
VisualizeQuit ==
    /\ main_pc = "vis"
    /\ VisualizeReturn
    /\ UNCHANGED <<globalVars, inputVars, queueVars, rawVars, callVars,
                   schedVars, physVars, diskVars, budgetVars, now, quiet>>

\* -------------------------------------------------------- input producers
\* add_event(...): pending_events.append(evt) with the current count and time
add_event(pending, count, ts, keyboard_keys, mouse_buttons, mouse_move, xy, dxy, raw_input) ==
    Append(pending,
           NewEvent(count, ts, keyboard_keys, mouse_buttons, mouse_move, xy, dxy, raw_input))

\* on_key_press / on_key_release, the unlocked part: a key goes down (or
\* repeats) or up, and the callback returns at once unless recording
KeyCallback(key, op) ==
    /\ kb_call = NoCall
    /\ inputs > 0
    /\ ~RunOver
    /\ inputs' = inputs - 1
    /\ op = "release" => key \in phys_keys
    /\ phys_keys' = IF op = "press" THEN phys_keys \cup {key} ELSE phys_keys \ {key}
    /\ kb_call' = IF recording THEN [NoCall EXCEPT !.op = op, !.id = key] ELSE NoCall
    /\ quiet' = FALSE
    /\ UNCHANGED <<globalVars, inputVars, queueVars, rawVars, mainVars,
                   ms_call, schedVars, phys_buttons, trials, captures, horizon, diskVars,
                   now, playVars, failures>>

\* on_key_press changes the held set and emits an event
KeyPressChanges(key, keys) == key \notin keys

\* on_key_release changes the held set and emits an event
KeyReleaseChanges(key, keys) == key \in keys

\* on_key_press / on_key_release, the part under state_lock
KeyLocked ==
    /\ kb_call # NoCall
    /\ LockFree
    /\ LET key == kb_call.id
           changes == IF kb_call.op = "press"
                      THEN KeyPressChanges(key, pressed_keys)
                      ELSE KeyReleaseChanges(key, pressed_keys)
       IN IF changes
          THEN /\ pressed_keys' = IF kb_call.op = "press"
                                  THEN pressed_keys \cup {key}
                                  ELSE pressed_keys \ {key}
               /\ \E ts \in Clock :
                      /\ now' = ts
                      /\ pending_events' = add_event(pending_events, global_event_count,
                                               ts, <<key>>, <<>>, FALSE, <<>>, <<>>, FALSE)
               /\ global_event_count' = NextEventCount(global_event_count)
          ELSE UNCHANGED <<pressed_keys, queueVars, now>>
    /\ kb_call' = NoCall
    /\ UNCHANGED <<globalVars, pressed_mouse_buttons, last_mouse_move_time,
                   last_mouse_xy, last_os_mouse_xy, rawVars, mainVars, ms_call,
                   schedVars, physVars, diskVars, budgetVars, quiet,
                   playVars>>

\* on_mouse_click, the unlocked part
MouseClickCallback(button, pressed) ==
    /\ ms_call = NoCall
    /\ inputs > 0
    /\ ~RunOver
    /\ inputs' = inputs - 1
    /\ pressed <=> button \notin phys_buttons
    /\ phys_buttons' = IF pressed THEN phys_buttons \cup {button}
                       ELSE phys_buttons \ {button}
    /\ ms_call' = IF recording
                  THEN [NoCall EXCEPT !.op = "click", !.id = button, !.pressed = pressed]
                  ELSE NoCall
    /\ quiet' = FALSE
    /\ UNCHANGED <<globalVars, inputVars, queueVars, rawVars, mainVars,
                   kb_call, schedVars, phys_keys, trials, captures, horizon, diskVars,
                   now, playVars, failures>>

\* on_mouse_move, the unlocked part: now and the delta are taken here
MouseMoveCallback(xy) ==
    /\ ms_call = NoCall
    /\ inputs > 0
    /\ ~RunOver
    /\ inputs' = inputs - 1
    /\ IF recording
       THEN \E ts \in Clock :
                /\ now' = ts
                /\ ms_call' = [NoCall EXCEPT !.op = "move", !.xy = xy, !.now = ts,
                                   !.dxy = <<xy[1] - last_os_mouse_xy[1],
                                             xy[2] - last_os_mouse_xy[2]>>]
       ELSE UNCHANGED <<ms_call, now>>
    /\ quiet' = FALSE
    /\ UNCHANGED <<globalVars, inputVars, queueVars, rawVars, mainVars,
                   kb_call, schedVars, physVars, trials, captures, horizon, diskVars,
                   playVars, failures>>

\* pressed_mouse_buttons after on_mouse_click
ClickedButtons(buttons, button, pressed) ==
    IF pressed THEN buttons \cup {button} ELSE buttons \ {button}

\* on_mouse_click / on_mouse_move, the part under state_lock
MouseLocked ==
    /\ ms_call # NoCall
    /\ LockFree
    /\ \E ts \in Clock :
           /\ now' = ts
           /\ IF ms_call.op = "click"
              THEN /\ pressed_mouse_buttons' =
                          ClickedButtons(pressed_mouse_buttons, ms_call.id, ms_call.pressed)
                   /\ pending_events' = add_event(pending_events, global_event_count,
                                            ts, <<>>, <<ms_call.id>>, FALSE, <<>>, <<>>, FALSE)
                   /\ UNCHANGED <<last_mouse_move_time, last_mouse_xy, last_os_mouse_xy>>
              ELSE /\ last_os_mouse_xy' = ms_call.xy
                   /\ last_mouse_xy' = ms_call.xy
                   /\ last_mouse_move_time' = ms_call.now
                   /\ pending_events' = add_event(pending_events, global_event_count,
                                            ts, <<>>, <<>>, TRUE, ms_call.xy, ms_call.dxy, FALSE)
                   /\ UNCHANGED pressed_mouse_buttons
    /\ global_event_count' = NextEventCount(global_event_count)
    /\ ms_call' = NoCall
    /\ UNCHANGED <<globalVars, pressed_keys, rawVars, mainVars, kb_call,
                   schedVars, physVars, diskVars, budgetVars, quiet,
                   playVars>>

\* mouse_event_callback: every registered tap appends the delta (with it,
\* as history, whether the program was idle when the pointer moved)
RECURSIVE TapAppend(_, _, _)
TapAppend(deltas, delta, n) ==
    IF n = 0 THEN deltas ELSE TapAppend(Append(deltas, delta), delta, n - 1)

RawTapCallback ==
    /\ taps > 0
    /\ inputs > 0
    /\ ~RunOver
    /\ inputs' = inputs - 1
    /\ raw_mouse_deltas' =
           TapAppend(raw_mouse_deltas,
                     [timestamp |-> now, dx |-> 1, dy |-> 0, idle |-> ~recording],
                     taps)
    /\ quiet' = FALSE
    /\ UNCHANGED <<globalVars, inputVars, queueVars, enable_mac_raw_data, taps,
                   poller, mainVars, callVars, schedVars, physVars, trials,
                   captures, horizon, diskVars, now, playVars, failures>>

\* poll_mac_raw_deltas: while recording
PollerCheck ==
    /\ poller = "check"
    /\ poller' = IF recording THEN "drain" ELSE "none"
    /\ UNCHANGED <<globalVars, inputVars, queueVars, raw_mouse_deltas,
                   enable_mac_raw_data, taps, mainVars, callVars, schedVars,
                   physVars, diskVars, budgetVars, now, quiet, playVars>>

\* the inner loop of poll_mac_raw_deltas: one event per buffered delta
RECURSIVE DrainDeltas(_, _, _, _)
DrainDeltas(pending, count, deltas, ts) ==
    IF deltas = <<>> THEN [pending |-> pending, count |-> count]
    ELSE LET delta == Head(deltas)
         IN DrainDeltas(add_event(pending, count, ts, <<>>, <<>>, TRUE, <<>>,
                                  <<delta.dx, delta.dy>>, TRUE),
                        NextEventCount(count), Tail(deltas), ts)

\* poll_mac_raw_deltas: the drain under state_lock
PollerDrain ==
    /\ poller = "drain"
    /\ LockFree
    /\ IF raw_mouse_deltas = <<>>
       THEN UNCHANGED <<queueVars, now>>
       ELSE \E ts \in Clock :
                LET r == DrainDeltas(pending_events, global_event_count,
                                     raw_mouse_deltas, ts)
                IN /\ now' = ts
                   /\ pending_events' = r.pending
                   /\ global_event_count' = r.count
    /\ raw_mouse_deltas' = <<>>
    /\ poller' = "check"
    /\ UNCHANGED <<globalVars, inputVars, enable_mac_raw_data, taps, mainVars,
                   callVars, schedVars, physVars, diskVars, budgetVars, quiet,
                   playVars>>

\* -------------------------------------------------------- capture_screen
\* line 295: last_frame_time = time.time(), then the screen source is opened
SchedBegin(t) ==
    /\ sched_pc[t] = "start"
    /\ \E ts \in Clock :
           /\ now' = ts
           /\ last_frame_time' = [last_frame_time EXCEPT ![t] = ts]
    /\ sched_pc' = [sched_pc EXCEPT ![t] = "top"]
    /\ UNCHANGED <<globalVars, inputVars, queueVars, rawVars, mainVars,
                   callVars, frame_start, mouse_is_moving, frame_time,
                   counter_read, physVars, diskVars, budgetVars, quiet,
                   playVars>>

\* lines 299-300: the loop test; the thread ends when the stop signal is set
SchedTop(t) ==
    /\ sched_pc[t] = "top"
    /\ IF stop_capture_event
       THEN /\ sched_pc' = [sched_pc EXCEPT ![t] = "none"]
            /\ last_frame_time' = [last_frame_time EXCEPT ![t] = 0]
            /\ UNCHANGED <<frame_start, now>>
       ELSE /\ sched_pc' = [sched_pc EXCEPT ![t] = "eval"]
            /\ \E ts \in Clock :
                   /\ now' = ts
                   /\ frame_start' = [frame_start EXCEPT ![t] = ts]
            /\ UNCHANGED last_frame_time
    /\ UNCHANGED <<globalVars, inputVars, queueVars, rawVars, mainVars,
                   callVars, mouse_is_moving, frame_time, counter_read,
                   physVars, diskVars, budgetVars, quiet, playVars>>

\* lines 301-305 and 347-350: the activity predicate under state_lock; a
\* tick that captures nothing sleeps and loops
SchedEval(t) ==
    /\ sched_pc[t] = "eval"
    /\ LockFree
    /\ LET moving == MouseIsMoving(frame_start[t], last_mouse_move_time)
           should_capture == ShouldCapture(pressed_keys, pressed_mouse_buttons, moving)
       IN IF should_capture
          THEN /\ captures > 0
               /\ captures' = captures - 1
               /\ mouse_is_moving' = [mouse_is_moving EXCEPT ![t] = moving]
               /\ sched_pc' = [sched_pc EXCEPT ![t] = "grab"]
               /\ UNCHANGED frame_start
          ELSE /\ mouse_is_moving' = [mouse_is_moving EXCEPT ![t] = FALSE]
               /\ sched_pc' = [sched_pc EXCEPT ![t] = "top"]
               /\ frame_start' = [frame_start EXCEPT ![t] = 0]
               /\ UNCHANGED captures
    /\ UNCHANGED <<globalVars, inputVars, queueVars, rawVars, mainVars,
                   callVars, last_frame_time, frame_time, counter_read,
                   physVars, inputs, trials, horizon, diskVars, now,
                   quiet, playVars, failures>>

\* lines 306-313: the screen grab, then frame_time = time.time()
SchedGrab(t) ==
    /\ sched_pc[t] = "grab"
    /\ \E ts \in Clock :
           /\ now' = ts
           /\ frame_time' = [frame_time EXCEPT ![t] = ts]
    /\ frame_start' = [frame_start EXCEPT ![t] = 0]
    /\ sched_pc' = [sched_pc EXCEPT ![t] = "part"]
    /\ UNCHANGED <<globalVars, inputVars, queueVars, rawVars, mainVars,
                   callVars, last_frame_time, mouse_is_moving, counter_read,
                   physVars, diskVars, budgetVars, quiet, playVars>>

\* lines 332-340: the frame entry
FrameEntry(counter, ft, events, keys, buttons, moving, xy) ==
    [filename |-> FrameFileName(counter),
     timestamp |-> ft,
     events |-> events,
     held_keys |-> keys,
     held_buttons |-> buttons,
     mouse_is_moving |-> moving,
     mouse_xy |-> xy]

\* line 330, cv2.imwrite, whose result the code does not look at: the file
\* is written, or the call returns False, or it raises cv2.error
ImwriteOutcomes(left) ==
    IF left > 0 THEN {"written", "false", "raised"} ELSE {"written"}

\* lines 315-343: state_lock taken, the pending queue partitioned, the image
\* written under the current counter, the held sets snapshot, the entry
\* appended to the log, the counter loaded for its increment.  The locals
\* are private to the thread: last_frame_time takes frame_time (line 345)
\* here already.  An exception of the image write leaves the with blocks
\* (state_lock is released) and ends the thread.
SchedPartition(t) ==
    /\ sched_pc[t] = "part"
    /\ LockFree
    /\ \E imwrite \in ImwriteOutcomes(failures) :
           LET p == Partition(pending_events, last_frame_time[t], frame_time[t])
               frame_entry == FrameEntry(trial_frame_counter, frame_time[t], p.events,
                                         pressed_keys, pressed_mouse_buttons,
                                         mouse_is_moving[t], last_mouse_xy)
           IN /\ pending_events' = p.pending
              /\ failures' = IF imwrite = "written" THEN failures ELSE failures - 1
              /\ IF imwrite = "raised"
                 THEN /\ sched_pc' = [sched_pc EXCEPT ![t] = "none"]
                      /\ last_frame_time' = [last_frame_time EXCEPT ![t] = 0]
                      /\ UNCHANGED <<trial_data_log, counter_read>>
                 ELSE /\ trial_data_log' = Append(trial_data_log, frame_entry)
                      /\ counter_read' = [counter_read EXCEPT ![t] = trial_frame_counter]
                      /\ last_frame_time' = [last_frame_time EXCEPT ![t] = frame_time[t]]
                      /\ sched_pc' = [sched_pc EXCEPT ![t] = "inc"]
    /\ frame_time' = [frame_time EXCEPT ![t] = 0]
    /\ mouse_is_moving' = [mouse_is_moving EXCEPT ![t] = FALSE]
    /\ UNCHANGED <<recording, dataset_name, next_trial_number,
                   trial_frame_counter, trial_folder_path, stop_capture_event>>
    /\ UNCHANGED <<inputVars, global_event_count, rawVars, mainVars, callVars,
                   frame_start, physVars, diskVars, inputs, trials, captures,
                   horizon, now, quiet, playVars>>

\* line 343, trial_frame_counter += 1: the store of the incremented value;
\* state_lock released, the sleep
SchedIncStore(t) ==
    /\ sched_pc[t] = "inc"
    /\ trial_frame_counter' = counter_read[t] + 1
    /\ counter_read' = [counter_read EXCEPT ![t] = 0]
    /\ sched_pc' = [sched_pc EXCEPT ![t] = "top"]
    /\ UNCHANGED <<recording, dataset_name, next_trial_number,
                   trial_data_log, trial_folder_path, stop_capture_event>>
    /\ UNCHANGED <<inputVars, queueVars, rawVars, mainVars, callVars,
                   last_frame_time, frame_start, mouse_is_moving, frame_time,
                   physVars, diskVars, budgetVars, now, quiet, playVars>>

\* ------------------------------------------------------------------- Next
Next ==
    \/ InitializeDataset
    \/ CommandRejected
    \/ CommandWarned
    \/ StartTrialFolder
    \/ StartTrialCounter
    \/ StartTrialQueue
    \/ StartTrialMarker
    \/ StartTrialThreads
    \/ StopTrialSignal
    \/ StopTrialSave
    \/ ResetProgram
    \/ \E key \in Keys, op \in {"press", "release"} : KeyCallback(key, op)
    \/ KeyLocked
    \/ \E button \in Buttons, pressed \in BOOLEAN : MouseClickCallback(button, pressed)
    \/ \E xy \in Positions : MouseMoveCallback(xy)
    \/ MouseLocked
    \/ \E t \in Scheds :
           \/ SchedBegin(t)
           \/ SchedTop(t)
           \/ SchedEval(t)
           \/ SchedGrab(t)
           \/ SchedPartition(t)
           \/ SchedIncStore(t)

\* raw pointer mode adds the Quartz tap and the poll thread
NextRaw ==
    \/ Next
    \/ RawTapCallback
    \/ PollerCheck
    \/ PollerDrain

Spec == Init /\ [][Next]_vars

SpecFrames == InitFrames /\ [][Next]_vars

SpecRaw == InitRaw /\ [][NextRaw]_vars

SpecRawTrials == InitRawTrials /\ [][NextRaw]_vars

SpecWriteFail == InitWriteFail /\ [][Next]_vars

\* the command thread alone: binding and playback
NextPlayback ==
    \/ InitializeDataset
    \/ VisualizeOpen
    \/ \E k \in WaitKeys : VisualizeKey(k)
    \/ VisualizeQuit

SpecPlayback == InitPlayback /\ [][NextPlayback]_vars

\* a step of capture thread t
SchedStep(t) ==
    \/ SchedBegin(t)
    \/ SchedTop(t)
    \/ SchedEval(t)
    \/ SchedGrab(t)
    \/ SchedPartition(t)
    \/ SchedIncStore(t)

\* a step of the command thread inside start_trial, stop_trial or a warning:
\* every step but the read of a command
CommandStep ==
    \/ CommandWarned
    \/ StartTrialCounter
    \/ StartTrialQueue
    \/ StartTrialMarker
    \/ StartTrialThreads
    \/ StopTrialSave

\* The operating system runs every thread that can take a step: the capture
\* threads, the command thread inside a handler, the listener threads inside
\* a locked body.  Nothing makes the user type a command or touch an input.
Fairness ==
    /\ \A t \in Scheds : WF_vars(SchedStep(t))
    /\ WF_vars(CommandStep)
    /\ WF_vars(KeyLocked)
    /\ WF_vars(MouseLocked)

SpecCancel == InitCancel /\ [][Next]_vars /\ Fairness

SpecNumbering == InitNumbering /\ [][Next]_vars

\* ================================================================= claims
\* the step of stop_trial that writes TrialData_<n>.json
SaveStep == main_pc = "stop1" /\ main_pc' = "prompt"

\* the highest member of a set of trial numbers, -1 for the empty set
HighestTrial(S) == IF S = {} THEN -1 ELSE CHOOSE m \in S : \A n \in S : n <= m

\* C1: once the only capture thread alive has partitioned the queue for a
\* frame, no event stamped at or before that frame's timestamp is still
\* pending.
C1_NoEventLeftPending ==
    \A t \in Scheds :
        (sched_pc[t] = "inc" /\ \A u \in Scheds \ {t} : sched_pc[u] = "none")
            => \A i \in 1..Len(pending_events) :
                   pending_events[i].timestamp > last_frame_time[t]

\* C2: in the log, every event of a FrameRecord is stamped after the previous
\* FrameRecord's timestamp and not after its own FrameRecord's timestamp, and
\* no globalSequence occurs in two FrameRecords.
C2_WindowsContiguous ==
    LET fr == Frames(trial_data_log)
    IN /\ \A k \in 1..Len(fr) : \A i \in 1..Len(fr[k].events) :
              /\ fr[k].events[i].timestamp <= fr[k].timestamp
              /\ k > 1 => fr[k].events[i].timestamp > fr[k - 1].timestamp
       /\ \A k, l \in 1..Len(fr) :
              k # l => \A i \in 1..Len(fr[k].events), j \in 1..Len(fr[l].events) :
                           fr[k].events[i].global_number # fr[l].events[j].global_number

\* C3: in every FrameRecord the local numbers of the events are 0, 1, ...,
\* n-1 in list order and their globalSequence values strictly increase.
C3_LocalOrder ==
    \A k \in 1..Len(trial_data_log) :
        IsFrame(trial_data_log[k]) =>
            LET ev == trial_data_log[k].events
            IN /\ \A i \in 1..Len(ev) : ev[i].number = i - 1
               /\ \A i \in 1..(Len(ev) - 1) :
                      ev[i].global_number < ev[i + 1].global_number

\* a FrameRecord with two events from different producers
C3_Witness ==
    \E k \in 1..Len(trial_data_log) :
        /\ IsFrame(trial_data_log[k])
        /\ Len(trial_data_log[k].events) = 2
        /\ trial_data_log[k].events[1].keyboard_keys # <<>>
        /\ trial_data_log[k].events[2].keyboard_keys = <<>>

\* C4: when stop saves the trial, the file names of the FrameRecords of the
\* log are frame_0, frame_1, ... in log order.
C4_FrameNamesContiguous ==
    [][SaveStep =>
           LET fr == Frames(trial_data_log)
           IN \A i \in 1..Len(fr) : fr[i].filename = <<"frame_", i - 1, SAVE_FORMAT>>]_vars

\* C5: the events of the pending queue carry strictly increasing
\* globalSequence numbers below the counter; every step that appends numbers
\* the new events from the counter on, in append order, and moves the counter
\* past them; the counter goes back only when start_trial empties the queue.
C5_SequenceIncreasing ==
    [][LET old == Len(pending_events)
           new == Len(pending_events')
       IN /\ \A i \in 1..(new - 1) :
                 pending_events'[i].global_number < pending_events'[i + 1].global_number
          /\ \A i \in 1..new : pending_events'[i].global_number < global_event_count'
          /\ new > old =>
                 /\ SubSeq(pending_events', 1, old) = pending_events
                 /\ \A i \in (old + 1)..new :
                        pending_events'[i].global_number = global_event_count + (i - old - 1)
                 /\ global_event_count' = global_event_count + (new - old)
          /\ global_event_count' < global_event_count =>
                 main_pc = "start2" /\ pending_events' = <<>> /\ global_event_count' = 0
      ]_vars

\* two events of different producers, the raw-delta poller one of them, are
\* pending together
C5_Witness ==
    /\ Len(pending_events) = 2
    /\ pending_events[1].raw_input # pending_events[2].raw_input

\* C6: the tick of a capture thread goes on to grab a frame exactly when a
\* key is held or a button is held or tickStart - lastMouseMoveTime is
\* strictly below the timeout, and its mouse_is_moving is that last test.
C6_CaptureIffActive ==
    [][\A t \in Scheds :
           (sched_pc[t] = "eval" /\ sched_pc'[t] # "eval") =>
               LET below == frame_start[t] - last_mouse_move_time < MOUSE_MOVE_TIMEOUT
               IN /\ sched_pc'[t] = "grab" <=>
                         (pressed_keys # {} \/ pressed_mouse_buttons # {} \/ below)
                  /\ sched_pc'[t] # "grab" => sched_pc'[t] = "top"
                  /\ mouse_is_moving'[t] = below
      ]_vars

\* a frame is being grabbed with nothing held, one unit below the timeout
C6_Witness ==
    \E t \in Scheds :
        /\ sched_pc[t] = "grab"
        /\ mouse_is_moving[t]
        /\ pressed_keys = {} /\ pressed_mouse_buttons = {}
        /\ frame_start[t] - last_mouse_move_time = MOUSE_MOVE_TIMEOUT - 1

\* C7: the log that stop saves starts with the trial_start marker, ends with
\* the trial_end marker and has only FrameRecords between them.
C7_SealedLogShape ==
    [][SaveStep =>
           /\ Len(trial_data_log) >= 2
           /\ IsMarker(trial_data_log[1], "trial_start")
           /\ IsMarker(trial_data_log[Len(trial_data_log)], "trial_end")
           /\ \A i \in 2..(Len(trial_data_log) - 1) : IsFrame(trial_data_log[i])
      ]_vars

\* C8: a command the command thread turns down is start while recording (or
\* unbound), stop while idle or reset while recording, and changes nothing;
\* a trial is begun only while idle and bound, ended only while recording,
\* the binding changes only while idle, and a capture thread is started
\* only by the last step of an accepted start.
C8_RejectedNoOp ==
    [][/\ (main_pc = "prompt" /\ main_pc' = "warn") =>
              /\ \/ cmd' = "s" /\ (recording \/ dataset_name = None)
                 \/ cmd' = "q" /\ ~recording
                 \/ cmd' = "n" /\ recording
              /\ UNCHANGED <<recording, trial_data_log, trial_frame_counter,
                             pending_events, global_event_count, dataset_name,
                             next_trial_number, sched_pc, stop_capture_event>>
       /\ (main_pc = "prompt" /\ main_pc' = "start1") =>
              ~recording /\ dataset_name # None
       /\ (main_pc = "prompt" /\ main_pc' = "stop1") => recording
       /\ (main_pc = "prompt" /\ dataset_name' # dataset_name) => ~recording
       /\ \A t \in Scheds :
              (sched_pc[t] # "start" /\ sched_pc'[t] = "start") => main_pc = "start4"
      ]_vars

\* start was turned down while recording, with a capture thread running
C8_Witness ==
    /\ main_pc = "warn"
    /\ cmd = "s"
    /\ recording
    /\ \E t \in Scheds : sched_pc[t] \notin {"none", "start"}

\* C9: a binding sets next_trial_number to the highest Trial_<n> plus 1 (0
\* without folders); besides, only the save step of stop changes it, by 1;
\* the markers of the saved log carry the number of the trial, whose folder
\* is Trial_<that number> of the bound dataset.
C9_TrialNumbering ==
    [][/\ dataset_name' # dataset_name =>
              next_trial_number' = HighestTrial(folders[dataset_name']) + 1
       /\ (dataset_name' = dataset_name /\ next_trial_number' # next_trial_number) =>
              \/ SaveStep /\ next_trial_number' = next_trial_number + 1
              \/ /\ main_pc = "prompt" /\ ~recording
                 /\ next_trial_number' = HighestTrial(folders[dataset_name]) + 1
       /\ (main_pc \in {"start1", "start2", "start3", "start4"} \/ main_pc' = "start1") =>
              next_trial_number' = next_trial_number
       /\ SaveStep =>
              /\ next_trial_number' = next_trial_number + 1
              /\ \E i \in 1..Len(trial_data_log) : IsMarker(trial_data_log[i], "trial_start")
              /\ \E i \in 1..Len(trial_data_log) : IsMarker(trial_data_log[i], "trial_end")
              /\ \A i \in 1..Len(trial_data_log) :
                     ~IsFrame(trial_data_log[i]) =>
                         trial_data_log[i].trial_number = next_trial_number
              /\ trial_folder_path = <<dataset_name, next_trial_number>>
              /\ next_trial_number \in folders[dataset_name]
      ]_vars

\* Trial_3 of the dataset with Trial_0 and Trial_2 was recorded and saved,
\* then the empty dataset was bound and its Trial_0 started
C9_Witness ==
    /\ [dataset |-> "dsB", trial_number |-> 3] \in saved
    /\ dataset_name = "dsA"
    /\ next_trial_number = 0
    /\ trial_folder_path = <<"dsA", 0>>
    /\ recording

\* C10: the log saved for a trial during which there was no physical input
\* has no FrameRecord.
C10_QuietTrialNoFrames ==
    [][(SaveStep /\ quiet) => Frames(trial_data_log) = <<>>]_vars

\* C11: a step taken with recording false before and after it appends no
\* event to the pending queue and leaves the held sets and the last pointer
\* position and move time alone; and a drain of the raw-delta buffer makes
\* no event of a delta that was buffered while the program was idle.
C11_IdleInputNoEffect ==
    [][/\ (~recording /\ ~recording') =>
              /\ Len(pending_events') <= Len(pending_events)
              /\ UNCHANGED inputVars
       /\ (raw_mouse_deltas' = <<>> /\ Len(pending_events') > Len(pending_events)) =>
              \A i \in 1..Len(raw_mouse_deltas) : ~raw_mouse_deltas[i].idle
      ]_vars

\* C12: a tick whose image write fails stays in the loop of its capture
\* thread (it goes on to the counter increment and the next loop test), and
\* the events of its window have left the pending queue, so that no later
\* frame delivers them.
C12_FailedWriteContinues ==
    [][\A t \in Scheds :
           (sched_pc[t] = "part" /\ sched_pc'[t] # "part" /\ failures' < failures) =>
               /\ sched_pc'[t] = "inc"
               /\ pending_events' =
                      Partition(pending_events, last_frame_time[t], frame_time[t]).pending
               /\ \A i \in 1..Len(pending_events') :
                      ~InWindow(last_frame_time[t], pending_events'[i].timestamp,
                                frame_time[t])
      ]_vars

\* C13: when start_trial starts the capture thread of the new trial, the
\* frame counter is 0, the pending queue is empty, the global event counter
\* is 0 and the log holds the trial_start marker of this trial and nothing
\* else.
C13_StartResetsSession ==
    [][(main_pc = "start4" /\ main_pc' = "prompt") =>
           /\ trial_frame_counter' = 0
           /\ pending_events' = <<>>
           /\ global_event_count' = 0
           /\ Len(trial_data_log') = 1
           /\ IsMarker(trial_data_log'[1], "trial_start")
           /\ trial_data_log'[1].trial_number = next_trial_number
      ]_vars

\* C14: in playback the index is always in 0..total_frames-1, and a turn of
\* the loop moves it by the step (-1, +1) or jump (-30, +30) of the key it
\* read, to the end it would pass when the move leaves that range.
C14_IndexInRange ==
    [][main_pc' = "vis" =>
           /\ total_frames' >= 1
           /\ 0 <= idx' /\ idx' <= total_frames' - 1
           /\ main_pc = "vis" =>
                  LET d == IF wait_key' \in LEFT_KEYS THEN -1
                           ELSE IF wait_key' \in RIGHT_KEYS THEN 1
                           ELSE IF wait_key' \in UP_KEYS THEN 30
                           ELSE IF wait_key' \in DOWN_KEYS THEN -30
                           ELSE 0
                  IN /\ total_frames' = total_frames
                     /\ idx + d < 0 => idx' = 0
                     /\ idx + d > total_frames - 1 => idx' = total_frames - 1
                     /\ (0 <= idx + d /\ idx + d <= total_frames - 1) => idx' = idx + d
      ]_vars

\* a jump of +30 in a trial of at most 30 frames ended at the last frame
C14_Witness ==
    /\ main_pc = "vis"
    /\ wait_key \in UP_KEYS
    /\ total_frames \in 2..JUMP
    /\ idx = total_frames - 1

\* C15: the step of stop_trial that turns recording off and appends the
\* trial_end marker, and the step that saves the log, are taken only when no
\* capture thread is alive.
C15_StopWaitsForScheduler ==
    [][/\ (recording /\ ~recording') => \A t \in Scheds : sched_pc[t] = "none"
       /\ (Len(trial_data_log') = Len(trial_data_log) + 1
           /\ IsMarker(trial_data_log'[Len(trial_data_log')], "trial_end")) =>
              \A t \in Scheds : sched_pc[t] = "none"
       /\ SaveStep => \A t \in Scheds : sched_pc[t] = "none"
      ]_vars

\* C16: the locked body of a key callback and of a click callback appends
\* one event when it changes its held set and none when the identifier was
\* already held (press) or not held (release).
C16_HeldSetIdempotent ==
    [][/\ (kb_call # NoCall /\ kb_call' = NoCall) =>
              IF pressed_keys' # pressed_keys
              THEN Len(pending_events') = Len(pending_events) + 1
              ELSE pending_events' = pending_events
       /\ (ms_call.op = "click" /\ ms_call' = NoCall) =>
              IF pressed_mouse_buttons' # pressed_mouse_buttons
              THEN Len(pending_events') = Len(pending_events) + 1
              ELSE pending_events' = pending_events
      ]_vars

\* the run has no capture left for the tick of thread t that wants one
OutOfCaptures(t) ==
    /\ sched_pc[t] = "eval"
    /\ captures = 0
    /\ ShouldCapture(pressed_keys, pressed_mouse_buttons,
                     MouseIsMoving(frame_start[t], last_mouse_move_time))

\* C17: a capture thread that is alive when stop_trial has set the stop
\* signal eventually exits, whatever commands follow (within the captures
\* of the run).
C17_SchedulerExits ==
    \A t \in Scheds :
        (main_pc = "stop1" /\ sched_pc[t] # "none")
            ~> (sched_pc[t] = "none" \/ OutOfCaptures(t))

\* the mouse-move events of a sequence of events
MoveEvents(events) == {events[i] : i \in {j \in 1..Len(events) : events[j].mouse_is_moving}}

\* C18: every mouse-move event, pending or in a FrameRecord of the log,
\* carries raw_input equal to the mode of the session: true in raw pointer
\* mode, false in absolute mode.
C18_OneMouseMode ==
    /\ \A e \in MoveEvents(pending_events) : e.raw_input = enable_mac_raw_data
    /\ \A k \in 1..Len(trial_data_log) :
           IsFrame(trial_data_log[k]) =>
               \A e \in MoveEvents(trial_data_log[k].events) :
                   e.raw_input = enable_mac_raw_data

\* C19: start_trial leaves at most one Quartz tap registered, and one
\* pointer movement puts at most one delta in the raw buffer.
C19_HooksRegisteredOnce ==
    [][/\ taps' <= 1
       /\ Len(raw_mouse_deltas') <= Len(raw_mouse_deltas) + 1
      ]_vars

\* C20: the FrameRecord that a capture thread appends, with no listener
\* callback in progress, records as held the keys and buttons that are
\* physically down.
C20_HeldSetsArePhysical ==
    [][(/\ Len(trial_data_log') = Len(trial_data_log) + 1
        /\ IsFrame(trial_data_log'[Len(trial_data_log')])
        /\ kb_call = NoCall
        /\ ms_call = NoCall) =>
           /\ trial_data_log'[Len(trial_data_log')].held_keys = phys_keys
           /\ trial_data_log'[Len(trial_data_log')].held_buttons = phys_buttons
      ]_vars

\* C21: every FrameRecord of the log has a key held, or a button held, or
\* mouse_is_moving true.
C21_FrameRecordIsActive ==
    \A k \in 1..Len(trial_data_log) :
        IsFrame(trial_data_log[k]) =>
            \/ trial_data_log[k].held_keys # {}
            \/ trial_data_log[k].held_buttons # {}
            \/ trial_data_log[k].mouse_is_moving

\* C22: at most one capture thread is alive.
C22_OneSchedulerLoop ==
    Cardinality({t \in Scheds : sched_pc[t] # "none"}) <= 1

====
